---------------------------- MODULE Spec2Model ----------------------------
(***************************************************************************)
(* SOR relaxation solvers (relax2d, relax3d, relax) and the membrane       *)
(* time-stepping driver (run_simulation) of the math-modelling labs.       *)
(*                                                                         *)
(* Floating-point numbers are modelled as fixed-point numbers: the integer *)
(* x stands for the real x / Scale.  Sums and differences are exact;       *)
(* products and quotients round toward zero, standing for the rounding of  *)
(* float64 arithmetic.                                                     *)
(***************************************************************************)
EXTENDS Integers, Sequences, FiniteSets, TLC

(***************************************************************************)
(* Fixed-point arithmetic                                                  *)
(***************************************************************************)
Scale == 1000

One == Scale

Half == Scale \div 2

Abs(x) == IF x < 0 THEN -x ELSE x

Max(x, y) == IF x > y THEN x ELSE y

\* integer quotient rounded toward zero; q /= 0
TruncDiv(p, q) ==
    LET m == Abs(p) \div Abs(q)
    IN  IF (p < 0) = (q < 0) THEN m ELSE -m

\* x * y
Mul(x, y) == TruncDiv(x * y, Scale)

\* x / y
Div(x, y) == TruncDiv(x * Scale, y)

\* x ** 2
Sq(x) == Mul(x, x)

\* the fixed-point number of the integer literal n
Num(n) == n * Scale

(***************************************************************************)
(* Grids.  A 2D field is a function on <<i, j>>, a 3D field a function on  *)
(* <<i, j, k>>, with 0-based indices as in the source.                     *)
(***************************************************************************)
Nodes2(n, m) == (0..(n - 1)) \X (0..(m - 1))

Nodes3(nx, ny, nz) == (0..(nx - 1)) \X (0..(ny - 1)) \X (0..(nz - 1))

\* range(1, n - 1) x range(1, m - 1)
Interior2(n, m) == (1..(n - 2)) \X (1..(m - 2))

Interior3(nx, ny, nz) == (1..(nx - 2)) \X (1..(ny - 2)) \X (1..(nz - 2))

\* the interior nodes in the order of the nested for loops (row-major)
Interior2Seq(n, m) ==
    [p \in 1..((n - 2) * (m - 2)) |->
        <<1 + ((p - 1) \div (m - 2)), 1 + ((p - 1) % (m - 2))>>]

Interior3Seq(nx, ny, nz) ==
    [p \in 1..((nx - 2) * (ny - 2) * (nz - 2)) |->
        <<1 + ((p - 1) \div ((ny - 2) * (nz - 2))),
          1 + (((p - 1) \div (nz - 2)) % (ny - 2)),
          1 + ((p - 1) % (nz - 2))>>]

\* np.zeros / np.ones scaled by v
Const2(n, m, v) == [p \in Nodes2(n, m) |-> v]

Const3(nx, ny, nz, v) == [p \in Nodes3(nx, ny, nz) |-> v]

RECURSIVE MaxOver(_, _)
\* the largest f[p] over the finite set S, and 0 when S is empty or all are negative
MaxOver(f, S) ==
    IF S = {} THEN 0
    ELSE LET p == CHOOSE q \in S : TRUE
         IN  Max(f[p], MaxOver(f, S \ {p}))

(***************************************************************************)
(* relax (lab2-standing-waves/src/solver.py)                               *)
(***************************************************************************)
\* t of one interior node, from the current (partly updated) field
Target2(c, U, i, j) ==
    Mul(  Mul(c.ax[<<i, j>>], U[<<i - 1, j>>]) + Mul(c.cx[<<i, j>>], U[<<i + 1, j>>])
        + Mul(c.ay[<<i, j>>], U[<<i, j - 1>>]) + Mul(c.cy[<<i, j>>], U[<<i, j + 1>>])
        - c.d_rhs[<<i, j>>],
        Div(One, c.b[<<i, j>>]))

\* U[i, j] = t * alfa + U[i, j] * (1 - alfa)
Relaxed(t, u, omega) == Mul(t, omega) + Mul(u, One - omega)

\* the store with its row index off by one
Store2OffByOne(U, i, j, v) == [U EXCEPT ![<<i - 1, j>>] = v]

\* U[i, j] = v
Store2(U, i, j, v) == [U EXCEPT ![<<i, j>>] = v]

\* U[i, j, k] = v
Store3(U, i, j, k, v) == [U EXCEPT ![<<i, j, k>>] = v]

RECURSIVE RelaxSweepFrom(_, _, _, _, _, _)
\* the body of relax's while loop from the p-th interior node on:
\* s = [U, err] is the field and the running maximum deviation
RelaxSweepFrom(c, order, omega, s, p, last) ==
    IF p > last THEN s
    ELSE LET i == order[p][1]
             j == order[p][2]
             t == Target2(c, s.U, i, j)
             deviation == Abs(s.U[<<i, j>>] - t)
         IN  RelaxSweepFrom(c, order, omega,
                 [U   |-> Store2(s.U, i, j, Relaxed(t, s.U[<<i, j>>], omega)),
                  err |-> Max(s.err, deviation)],
                 p + 1, last)

\* one iteration of relax's while loop: err = 0.0, then the sweep
RelaxSweep(c, n, m, omega, U) ==
    LET order == Interior2Seq(n, m)
    IN  RelaxSweepFrom(c, order, omega, [U |-> U, err |-> 0], 1, Len(order))

\* while err > eps and it < max_iter
RelaxContinues(err, it, eps, max_iter) == err > eps /\ it < max_iter

\* if it >= max_iter: print("Warning: ...")
RelaxWarns(err, it, eps, max_iter) == it >= max_iter

(***************************************************************************)
(* relax2d (lab1-pde-modeling/solver.py)                                   *)
(***************************************************************************)
\* the literal minimum number of sweeps in relax2d's loop condition
MinIter2d == 100

RECURSIVE Relax2dSweepFrom(_, _, _, _, _, _)
\* the update loop of relax2d from the p-th interior node on
Relax2dSweepFrom(c, order, omega, U, p, last) ==
    IF p > last THEN U
    ELSE LET i == order[p][1]
             j == order[p][2]
             t == Target2(c, U, i, j)
         IN  Relax2dSweepFrom(c, order, omega,
                 Store2(U, i, j, Relaxed(t, U[<<i, j>>], omega)), p + 1, last)

\* err after a sweep: the largest |U - U_old| over the interior nodes
SweepError2(U, U_old, n, m) ==
    MaxOver([p \in Interior2(n, m) |-> Abs(U[p] - U_old[p])], Interior2(n, m))

\* one iteration of relax2d's while loop: snapshot, sweep, error
Relax2dSweep(c, n, m, omega, U) ==
    LET order == Interior2Seq(n, m)
        U_old == U
        Unew  == Relax2dSweepFrom(c, order, omega, U, 1, Len(order))
    IN  [U |-> Unew, U_old |-> U_old, err |-> SweepError2(Unew, U_old, n, m)]

\* while err > eps and it < max_iter or it < 100
Relax2dContinues(err, it, eps, max_iter) ==
    (err > eps /\ it < max_iter) \/ it < MinIter2d

\* if it >= max_iter: print("Warning: ...") else: print("Converged ...")
Relax2dWarns(err, it, eps, max_iter) == it >= max_iter

(***************************************************************************)
(* relax3d (lab1-pde-modeling/solver.py)                                   *)
(***************************************************************************)
Target3(c, U, i, j, k) ==
    Mul(  Mul(c.ax[<<i, j, k>>], U[<<i - 1, j, k>>]) + Mul(c.cx[<<i, j, k>>], U[<<i + 1, j, k>>])
        + Mul(c.ay[<<i, j, k>>], U[<<i, j - 1, k>>]) + Mul(c.cy[<<i, j, k>>], U[<<i, j + 1, k>>])
        + Mul(c.az[<<i, j, k>>], U[<<i, j, k - 1>>]) + Mul(c.cz[<<i, j, k>>], U[<<i, j, k + 1>>])
        - c.d_rhs[<<i, j, k>>],
        Div(One, c.b[<<i, j, k>>]))

\* U[i,j,k] = omega*t + (1.0 - omega)*U[i,j,k]
Relaxed3(t, u, omega) == Mul(omega, t) + Mul(One - omega, u)

RECURSIVE Relax3dSweepFrom(_, _, _, _, _, _)
Relax3dSweepFrom(c, order, omega, U, p, last) ==
    IF p > last THEN U
    ELSE LET i == order[p][1]
             j == order[p][2]
             k == order[p][3]
             t == Target3(c, U, i, j, k)
         IN  Relax3dSweepFrom(c, order, omega,
                 Store3(U, i, j, k, Relaxed3(t, U[<<i, j, k>>], omega)), p + 1, last)

SweepError3(U, U_old, nx, ny, nz) ==
    MaxOver([p \in Interior3(nx, ny, nz) |-> Abs(U[p] - U_old[p])],
            Interior3(nx, ny, nz))

\* one iteration of relax3d's while loop: snapshot, sweep, error
Relax3dSweep(c, nx, ny, nz, omega, U) ==
    LET order == Interior3Seq(nx, ny, nz)
        U_old == U
        Unew  == Relax3dSweepFrom(c, order, omega, U, 1, Len(order))
    IN  [U |-> Unew, U_old |-> U_old, err |-> SweepError3(Unew, U_old, nx, ny, nz)]

\* while ((err > eps and it < max_iter) or it < min_iter)
Relax3dContinues(err, it, eps, max_iter, min_iter) ==
    (err > eps /\ it < max_iter) \/ it < min_iter

\* if it >= max_iter and err > eps: print("Warning: ...")
Relax3dWarns(err, it, eps, max_iter) == it >= max_iter /\ err > eps

(***************************************************************************)
(* The time-step assembly and boundary helpers                             *)
(* (lab1-standing-waves/src/simulation.py)                                 *)
(***************************************************************************)
\* the first fold with its two statements swapped: ay is zeroed, then subtracted
NeumannCoeffModsZeroedFirst(c, nx, ny) ==
    LET N  == Nodes2(nx, ny)
        c1 == [c  EXCEPT !.ay = [p \in N |-> IF p[2] = 1 THEN 0 ELSE c.ay[p]]]
        c2 == [c1 EXCEPT !.b  = [p \in N |-> IF p[2] = ny - 2 THEN c1.b[p] - c1.cy[p] ELSE c1.b[p]],
                         !.cy = [p \in N |-> IF p[2] = ny - 2 THEN 0 ELSE c1.cy[p]]]
        c3 == [c2 EXCEPT !.b  = [p \in N |-> IF p[1] = 1 THEN c2.b[p] - c2.ax[p] ELSE c2.b[p]],
                         !.ax = [p \in N |-> IF p[1] = 1 THEN 0 ELSE c2.ax[p]]]
        c4 == [c3 EXCEPT !.b  = [p \in N |-> IF p[1] = nx - 2 THEN c3.b[p] - c3.cx[p] ELSE c3.b[p]],
                         !.cx = [p \in N |-> IF p[1] = nx - 2 THEN 0 ELSE c3.cx[p]]]
    IN  c4

\* apply_neumann_coeff_mods: the four folds, in the order of the source
ApplyNeumannCoeffMods(c, nx, ny) ==
    LET N  == Nodes2(nx, ny)
        c1 == [c  EXCEPT !.b  = [p \in N |-> IF p[2] = 1 THEN c.b[p] - c.ay[p] ELSE c.b[p]],
                         !.ay = [p \in N |-> IF p[2] = 1 THEN 0 ELSE c.ay[p]]]
        c2 == [c1 EXCEPT !.b  = [p \in N |-> IF p[2] = ny - 2 THEN c1.b[p] - c1.cy[p] ELSE c1.b[p]],
                         !.cy = [p \in N |-> IF p[2] = ny - 2 THEN 0 ELSE c1.cy[p]]]
        c3 == [c2 EXCEPT !.b  = [p \in N |-> IF p[1] = 1 THEN c2.b[p] - c2.ax[p] ELSE c2.b[p]],
                         !.ax = [p \in N |-> IF p[1] = 1 THEN 0 ELSE c2.ax[p]]]
        c4 == [c3 EXCEPT !.b  = [p \in N |-> IF p[1] = nx - 2 THEN c3.b[p] - c3.cx[p] ELSE c3.b[p]],
                         !.cx = [p \in N |-> IF p[1] = nx - 2 THEN 0 ELSE c3.cx[p]]]
    IN  c4

\* the first edge copy reversed: U[:, 1] = U[:, 0]
CopyNeumannFirstReversed(F, nx, ny) ==
    LET N  == Nodes2(nx, ny)
        F1 == [p \in N |-> IF p[2] = 1 THEN F[<<p[1], 0>>] ELSE F[p]]
        F2 == [p \in N |-> IF p[2] = ny - 1 THEN F1[<<p[1], ny - 2>>] ELSE F1[p]]
        F3 == [p \in N |-> IF p[1] = 0 THEN F2[<<1, p[2]>>] ELSE F2[p]]
        F4 == [p \in N |-> IF p[1] = nx - 1 THEN F3[<<nx - 2, p[2]>>] ELSE F3[p]]
        F5 == [F4 EXCEPT ![<<0, 0>>] = Mul(Half, F4[<<1, 0>>] + F4[<<0, 1>>])]
        F6 == [F5 EXCEPT ![<<nx - 1, ny - 1>>] =
                  Mul(Half, F5[<<nx - 2, ny - 1>>] + F5[<<nx - 1, ny - 2>>])]
        F7 == [F6 EXCEPT ![<<0, ny - 1>>] = Mul(Half, F6[<<0, ny - 2>>] + F6[<<1, ny - 1>>])]
        F8 == [F7 EXCEPT ![<<nx - 1, 0>>] = Mul(Half, F7[<<nx - 1, 1>>] + F7[<<nx - 2, 0>>])]
    IN  F8

\* copy_neumann_boundaries: the four edge copies, then the four corners
CopyNeumannBoundaries(F, nx, ny) ==
    LET N  == Nodes2(nx, ny)
        F1 == [p \in N |-> IF p[2] = 0 THEN F[<<p[1], 1>>] ELSE F[p]]
        F2 == [p \in N |-> IF p[2] = ny - 1 THEN F1[<<p[1], ny - 2>>] ELSE F1[p]]
        F3 == [p \in N |-> IF p[1] = 0 THEN F2[<<1, p[2]>>] ELSE F2[p]]
        F4 == [p \in N |-> IF p[1] = nx - 1 THEN F3[<<nx - 2, p[2]>>] ELSE F3[p]]
        F5 == [F4 EXCEPT ![<<0, 0>>] = Mul(Half, F4[<<1, 0>>] + F4[<<0, 1>>])]
        F6 == [F5 EXCEPT ![<<nx - 1, ny - 1>>] =
                  Mul(Half, F5[<<nx - 2, ny - 1>>] + F5[<<nx - 1, ny - 2>>])]
        F7 == [F6 EXCEPT ![<<0, ny - 1>>] = Mul(Half, F6[<<0, ny - 2>>] + F6[<<1, ny - 1>>])]
        F8 == [F7 EXCEPT ![<<nx - 1, 0>>] = Mul(Half, F7[<<nx - 1, 1>>] + F7[<<nx - 2, 0>>])]
    IN  F8

\* U[0, :], U[-1, :], U[:, 0], U[:, -1] = 0.0, 0.0, 0.0, 0.0
ZeroBoundaries(F, nx, ny) ==
    [p \in Nodes2(nx, ny) |->
        IF p[1] = 0 \/ p[1] = nx - 1 \/ p[2] = 0 \/ p[2] = ny - 1 THEN 0 ELSE F[p]]

\* sin(pi * x), tabulated at the quarter steps of x
SinPi(x) ==
    LET q == (x \div (Scale \div 4)) % 8
        r == (707 * Scale) \div 1000
    IN  CASE q = 0 -> 0   [] q = 1 -> r    [] q = 2 -> One  [] q = 3 -> r
          [] q = 4 -> 0   [] q = 5 -> -r   [] q = 6 -> -One [] OTHER -> -r

\* source_value = AA * np.sin(np.pi * KK * k * dt)
SourceValue(k, config) ==
    Mul(config.amplitude, SinPi(Mul(config.frequency_k * k, config.dt)))

\* the nodes set_sources overrides
SourceNodes(config) ==
    IF config.experiment_type \in {"FREE_CENTER", "CLAMPED_CENTER"}
    THEN {<<config.nx \div 2, config.ny \div 2>>}
    ELSE IF config.experiment_type = "FREE_TWO_GENERATORS"
    THEN {<<1, config.ny \div 2>>, <<config.nx - 2, config.ny \div 2>>}
    ELSE {}

\* set_sources: each source row becomes b = 1, no neighbours, rhs = source_value
SetSources(k, c, config) ==
    LET S == SourceNodes(config)
        N == Nodes2(config.nx, config.ny)
    IN  [ax    |-> [p \in N |-> IF p \in S THEN 0 ELSE c.ax[p]],
         ay    |-> [p \in N |-> IF p \in S THEN 0 ELSE c.ay[p]],
         cx    |-> [p \in N |-> IF p \in S THEN 0 ELSE c.cx[p]],
         cy    |-> [p \in N |-> IF p \in S THEN 0 ELSE c.cy[p]],
         b     |-> [p \in N |-> IF p \in S THEN One ELSE c.b[p]],
         d_rhs |-> [p \in N |-> IF p \in S THEN SourceValue(k, config) ELSE c.d_rhs[p]]]

\* hx = Lx / (nx - 1)
GridStep(L, n) == Div(L, Num(n - 1))

\* the diagonal without its time term
BaseDiagonalNoTimeTerm(ax0, ay0, dt) == ax0 + ax0 + ay0 + ay0

\* b0 = ax0 + cx0 + ay0 + cy0 + 1.0 / (dt ** 2)
BaseDiagonal(ax0, ay0, dt) == ax0 + ax0 + ay0 + ay0 + Div(One, Sq(dt))

\* ax0, cx0, ay0, cy0, b0 and their per-step copies
BaseCoeffs(config) ==
    LET nx  == config.nx
        ny  == config.ny
        ax0 == Div(Half, Sq(GridStep(config.Lx, nx)))
        ay0 == Div(Half, Sq(GridStep(config.Ly, ny)))
    IN  [ax |-> Const2(nx, ny, ax0), cx |-> Const2(nx, ny, ax0),
         ay |-> Const2(nx, ny, ay0), cy |-> Const2(nx, ny, ay0),
         b  |-> Const2(nx, ny, BaseDiagonal(ax0, ay0, config.dt))]

\* d_rhs: zero on the boundary ring, the discretised wave equation inside
Rhs(F0, F1, config) ==
    LET nx  == config.nx
        ny  == config.ny
        dt2 == Sq(config.dt)
        hx2 == Sq(GridStep(config.Lx, nx))
        hy2 == Sq(GridStep(config.Ly, ny))
    IN  [p \in Nodes2(nx, ny) |->
            IF p \in Interior2(nx, ny)
            THEN LET i == p[1]
                     j == p[2]
                 IN  Div(Mul(-Num(2), F1[p]) + F0[p], dt2)
                     - Mul(Half,
                           Div(F0[<<i - 1, j>>] - Mul(Num(2), F0[p]) + F0[<<i + 1, j>>], hx2)
                         + Div(F0[<<i, j - 1>>] - Mul(Num(2), F0[p]) + F0[<<i, j + 1>>], hy2))
            ELSE 0]

\* lines 88-103 of run_simulation: fresh coefficients, right-hand side,
\* sources, then the boundary condition's coefficient modification
Assembled(k, F0, F1, config) ==
    LET base == BaseCoeffs(config)
        c0   == [ax |-> base.ax, ay |-> base.ay, cx |-> base.cx, cy |-> base.cy,
                 b |-> base.b, d_rhs |-> Rhs(F0, F1, config)]
        c1   == SetSources(k, c0, config)
    IN  IF config.boundary_condition = "neumann"
        THEN ApplyNeumannCoeffMods(c1, config.nx, config.ny)
        ELSE c1

\* the boundary correction after the solve
BoundaryCorrection(F, config) ==
    IF config.boundary_condition = "neumann"
    THEN CopyNeumannBoundaries(F, config.nx, config.ny)
    ELSE IF config.boundary_condition = "dirichlet"
    THEN ZeroBoundaries(F, config.nx, config.ny)
    ELSE F

RECURSIVE RelaxLoop(_, _, _, _, _, _, _)
\* relax's while loop from the state s = [U, err, it]
RelaxLoop(c, n, m, omega, eps, max_iter, s) ==
    IF RelaxContinues(s.err, s.it, eps, max_iter)
    THEN LET r == RelaxSweep(c, n, m, omega, s.U)
         IN  RelaxLoop(c, n, m, omega, eps, max_iter,
                       [U |-> r.U, err |-> r.err, it |-> s.it + 1])
    ELSE s

(***************************************************************************)
(* Arrays are objects: a variable holds a reference into the heap, so that *)
(* two variables may name the same array.                                  *)
(***************************************************************************)
\* the smallest reference the heap does not use
FreshRef(h) ==
    CHOOSE r \in 1..(Cardinality(DOMAIN h) + 1) :
        r \notin DOMAIN h /\ \A q \in 1..(r - 1) : q \in DOMAIN h

\* a.copy(): a new array with the contents of a
NpCopy(h, a) ==
    LET r == FreshRef(h)
    IN  [heap |-> [q \in DOMAIN h \cup {r} |-> IF q = r THEN h[a] ELSE h[q]], ref |-> r]

\* the array itself instead of a copy of it
NpAlias(h, a) == [heap |-> h, ref |-> a]

\* relax: U = U_initial.copy()
RelaxWorkingCopy(h, a) == NpCopy(h, a)

\* the arrays still referenced
Collect(h, live) == [q \in DOMAIN h \cap live |-> h[q]]

(***************************************************************************)
(* State                                                                   *)
(***************************************************************************)
VARIABLES
    \* one call of a solver, sweep by sweep
    call,       \* the arguments: variant, grid size, coefficients, U_initial, omega, eps, max_iter, min_iter
    U,          \* the working field
    U_old,      \* the snapshot taken before the sweep (relax2d, relax3d)
    err,        \* the error of the last sweep
    it,         \* the sweeps done
    pc,         \* "loop" | "returned"
    warned,     \* whether the non-convergence warning was printed
    \* one run of run_simulation
    config,     \* the configuration dictionary
    phase,      \* "setup" | "configured" | "error" | "assemble" | "solve" | "correct" | "store" | "advance" | "done"
    k,          \* the time step of the loop
    heap,       \* the arrays of the time layers, by reference
    ref,        \* the references the variables U, U0, U1 and dU hold
    coef,       \* ax, ay, cx, cy, b, d_rhs of the current step
    U_stack,    \* the history stack: slot -> field
    hist,       \* history of the run, for stating the properties
    \* one call of apply_neumann_coeff_mods
    modsArgs,   \* nx, ny and the coefficient arrays as passed
    modsOut,    \* the coefficient arrays after the call
    modsPc      \* "call" | "returned"

solverVars == <<call, U, U_old, err, it, pc, warned>>

simVars == <<config, phase, k, heap, ref, coef, U_stack, hist>>

modsVars == <<modsArgs, modsOut, modsPc>>

vars == <<solverVars, simVars, modsVars>>

(***************************************************************************)
(* Solver calls: the inputs                                                *)
(***************************************************************************)
\* the largest grid dimension of the solver calls
GridMax == 4

\* the largest max_iter of the solver calls
MaxIterBound == 3

\* the largest min_iter of the relax3d calls
MinIterBound == 2

\* the field base + step * (row-major index of the node)
Ramp2(n, m, base, step) == [p \in Nodes2(n, m) |-> base + step * (p[1] * m + p[2])]

Ramp3(nx, ny, nz, base, step) ==
    [p \in Nodes3(nx, ny, nz) |-> base + step * ((p[1] * ny + p[2]) * nz + p[3])]

\* the neighbour coefficient and the diagonal of a call: isolated rows, or
\* coupled diagonally dominant rows
CoefKinds == {[a |-> 0, b |-> One], [a |-> Half, b |-> Num(4)]}

\* initial guess and right-hand side: all zero (already solved), a zero guess
\* with a constant right-hand side, or ramps
Profiles == {"solved", "flat", "ramp"}

Guess2(n, m, prof) ==
    IF prof = "ramp" THEN Ramp2(n, m, One, Half) ELSE Const2(n, m, 0)

Rhs2(n, m, prof) ==
    CASE prof = "solved" -> Const2(n, m, 0)
      [] prof = "flat"   -> Const2(n, m, One)
      [] OTHER           -> Ramp2(n, m, -One, Half \div 2)

Guess3(nx, ny, nz, prof) ==
    IF prof = "ramp" THEN Ramp3(nx, ny, nz, One, Half) ELSE Const3(nx, ny, nz, 0)

Rhs3(nx, ny, nz, prof) ==
    CASE prof = "solved" -> Const3(nx, ny, nz, 0)
      [] prof = "flat"   -> Const3(nx, ny, nz, One)
      [] OTHER           -> Ramp3(nx, ny, nz, -One, Half \div 2)

Coeffs2(n, m, kind, prof) ==
    [ax |-> Const2(n, m, kind.a), ay |-> Const2(n, m, kind.a),
     cx |-> Const2(n, m, kind.a), cy |-> Const2(n, m, kind.a),
     b  |-> Const2(n, m, kind.b), d_rhs |-> Rhs2(n, m, prof)]

Coeffs3(nx, ny, nz, kind, prof) ==
    [ax |-> Const3(nx, ny, nz, kind.a), ay |-> Const3(nx, ny, nz, kind.a),
     az |-> Const3(nx, ny, nz, kind.a), cx |-> Const3(nx, ny, nz, kind.a),
     cy |-> Const3(nx, ny, nz, kind.a), cz |-> Const3(nx, ny, nz, kind.a),
     b  |-> Const3(nx, ny, nz, kind.b), d_rhs |-> Rhs3(nx, ny, nz, prof)]

Omegas == {One, One + Half, Num(2)}

Epsilons == {1, Half}

Calls2(variant, epsilons, maxIters, minIters) ==
    { [variant |-> variant, dims |-> <<n, m>>,
       c |-> Coeffs2(n, m, kind, prof), U_initial |-> Guess2(n, m, prof),
       omega |-> omega, eps |-> eps, max_iter |-> mx, min_iter |-> mn] :
      n \in 3..GridMax, m \in 3..GridMax, kind \in CoefKinds, prof \in Profiles,
      omega \in Omegas, eps \in epsilons, mx \in maxIters, mn \in minIters }

Calls3 ==
    { [variant |-> "relax3d", dims |-> <<nx, ny, nz>>,
       c |-> Coeffs3(nx, ny, nz, kind, prof), U_initial |-> Guess3(nx, ny, nz, prof),
       omega |-> omega, eps |-> eps, max_iter |-> mx, min_iter |-> mn] :
      nx \in 3..GridMax, ny \in 3..GridMax, nz \in {3}, kind \in CoefKinds,
      prof \in Profiles, omega \in Omegas, eps \in Epsilons,
      mx \in 0..MaxIterBound, mn \in 0..MinIterBound }

\* relax2d has no min_iter parameter (its floor is the literal 100) and relax
\* has no floor; max_iter reaches past relax2d's floor
Calls ==
    Calls2("relax2d", {1}, {0, MinIter2d, MinIter2d + MaxIterBound}, {MinIter2d})
    \cup Calls2("relax", Epsilons, 0..MaxIterBound, {0})
    \cup Calls3

\* no simulation is running
SimIdle ==
    /\ config = <<>> /\ phase = "idle" /\ k = 0 /\ heap = <<>> /\ ref = <<>>
    /\ coef = <<>> /\ U_stack = <<>> /\ hist = <<>>

\* no call of apply_neumann_coeff_mods is being followed
ModsIdle == modsArgs = <<>> /\ modsOut = <<>> /\ modsPc = "idle"

\* no solver call is being followed
SolverIdle ==
    /\ call = <<>> /\ U = <<>> /\ U_old = <<>> /\ err = 0 /\ it = 0
    /\ pc = "idle" /\ warned = FALSE

(***************************************************************************)
(* One solver call, sweep by sweep                                         *)
(***************************************************************************)
\* U = U_initial.copy(); err = 1.0; it = 0
InitSolver ==
    /\ call \in Calls
    /\ U = call.U_initial
    /\ U_old = call.U_initial
    /\ err = One
    /\ it = 0
    /\ pc = "loop"
    /\ warned = FALSE
    /\ SimIdle
    /\ ModsIdle

Sweep2d ==
    /\ pc = "loop" /\ call.variant = "relax2d"
    /\ Relax2dContinues(err, it, call.eps, call.max_iter)
    /\ LET r == Relax2dSweep(call.c, call.dims[1], call.dims[2], call.omega, U)
       IN  U' = r.U /\ U_old' = r.U_old /\ err' = r.err
    /\ it' = it + 1
    /\ UNCHANGED <<simVars, modsVars, call, pc, warned>>

Return2d ==
    /\ pc = "loop" /\ call.variant = "relax2d"
    /\ ~Relax2dContinues(err, it, call.eps, call.max_iter)
    /\ warned' = Relax2dWarns(err, it, call.eps, call.max_iter)
    /\ pc' = "returned"
    /\ UNCHANGED <<simVars, modsVars, call, U, U_old, err, it>>

Sweep3d ==
    /\ pc = "loop" /\ call.variant = "relax3d"
    /\ Relax3dContinues(err, it, call.eps, call.max_iter, call.min_iter)
    /\ LET r == Relax3dSweep(call.c, call.dims[1], call.dims[2], call.dims[3], call.omega, U)
       IN  U' = r.U /\ U_old' = r.U_old /\ err' = r.err
    /\ it' = it + 1
    /\ UNCHANGED <<simVars, modsVars, call, pc, warned>>

Return3d ==
    /\ pc = "loop" /\ call.variant = "relax3d"
    /\ ~Relax3dContinues(err, it, call.eps, call.max_iter, call.min_iter)
    /\ warned' = Relax3dWarns(err, it, call.eps, call.max_iter)
    /\ pc' = "returned"
    /\ UNCHANGED <<simVars, modsVars, call, U, U_old, err, it>>

SweepRelax ==
    /\ pc = "loop" /\ call.variant = "relax"
    /\ RelaxContinues(err, it, call.eps, call.max_iter)
    /\ LET r == RelaxSweep(call.c, call.dims[1], call.dims[2], call.omega, U)
       IN  U' = r.U /\ err' = r.err
    /\ it' = it + 1
    /\ UNCHANGED <<simVars, modsVars, call, U_old, pc, warned>>

ReturnRelax ==
    /\ pc = "loop" /\ call.variant = "relax"
    /\ ~RelaxContinues(err, it, call.eps, call.max_iter)
    /\ warned' = RelaxWarns(err, it, call.eps, call.max_iter)
    /\ pc' = "returned"
    /\ UNCHANGED <<simVars, modsVars, call, U, U_old, err, it>>

NextSolver ==
    \/ Sweep2d
    \/ Return2d
    \/ Sweep3d
    \/ Return3d
    \/ SweepRelax
    \/ ReturnRelax

SpecSolver == InitSolver /\ [][NextSolver]_vars

(***************************************************************************)
(* run_simulation, step by step                                            *)
(***************************************************************************)
\* the number of time steps of a run
MaxSteps == 3

ExperimentTypes == {"FREE_CENTER", "CLAMPED_CENTER", "FREE_TWO_GENERATORS"}

\* the configurations a caller may hand over: grid sizes, relaxation factors
\* and sweep ceilings vary; the selectors include values the program does not know
Configs ==
    { [nx |-> nx, ny |-> ny, Lx |-> Num(2), Ly |-> Num(2), dt |-> Half,
       amplitude |-> One, frequency_k |-> Half, max_steps |-> MaxSteps,
       relax_alfa |-> alfa, relax_eps |-> 1, relax_max_iter |-> mx,
       experiment_type |-> e, boundary_condition |-> bc] :
      nx \in 3..GridMax, ny \in 3..GridMax,
      alfa \in {One, (18 * One) \div 10, Num(2)}, mx \in {1, MaxIterBound},
      e \in ExperimentTypes \cup {"UNKNOWN"},
      bc \in {"neumann", "dirichlet", "periodic"} }

InitSim ==
    /\ config \in Configs
    /\ phase = "setup"
    /\ k = 0
    /\ heap = <<>>
    /\ ref = <<>>
    /\ coef = <<>>
    /\ U_stack = <<>>
    /\ hist = <<>>
    /\ SolverIdle
    /\ ModsIdle

\* get_config(experiment_type): the boundary condition of the experiment, or
\* ValueError for an unknown experiment type
GetConfig ==
    /\ phase = "setup"
    /\ IF config.experiment_type \in {"FREE_CENTER", "FREE_TWO_GENERATORS"}
       THEN /\ config' = [config EXCEPT !.boundary_condition = "neumann"]
            /\ phase' = "configured"
       ELSE IF config.experiment_type = "CLAMPED_CENTER"
       THEN /\ config' = [config EXCEPT !.boundary_condition = "dirichlet"]
            /\ phase' = "configured"
       ELSE /\ phase' = "error"
            /\ UNCHANGED config
    /\ UNCHANGED <<solverVars, modsVars, k, heap, ref, coef, U_stack, hist>>

\* run_simulation(config) up to the loop: the time layers and the storage.
\* The caller passes get_config's dictionary or one of its own.
StartSimulation ==
    /\ phase \in {"setup", "configured"}
    /\ LET nx == config.nx
           ny == config.ny
           Z  == Const2(nx, ny, 0)
           h1 == (1 :> Z)
           c0 == NpCopy(h1, 1)
           c1 == NpCopy(c0.heap, 1)
           cd == NpCopy(c1.heap, 1)
           \* U1[1:nx-1, 1:ny-1] = U0[...] + dt * dU[...]
           F1 == [p \in Nodes2(nx, ny) |->
                    IF p \in Interior2(nx, ny)
                    THEN cd.heap[c0.ref][p] + Mul(config.dt, cd.heap[cd.ref][p])
                    ELSE cd.heap[c1.ref][p]]
       IN  /\ heap' = [cd.heap EXCEPT ![c1.ref] = F1]
           /\ ref' = [U |-> 1, U0 |-> c0.ref, U1 |-> c1.ref, dU |-> cd.ref]
           /\ U_stack' = [s \in 0..(config.max_steps - 1) |-> Z]
           /\ hist' = [U1_start |-> Z, solved |-> Z,
                       fixedAt |-> [s \in 0..(config.max_steps - 1) |-> Z],
                       writes |-> [s \in 0..(config.max_steps - 1) |-> 0]]
    /\ k' = 1
    /\ phase' = IF config.max_steps >= 1 THEN "assemble" ELSE "done"
    /\ coef' = <<>>
    /\ UNCHANGED <<solverVars, modsVars, config>>

\* the coefficients and right-hand side of step k
Assemble ==
    /\ phase = "assemble"
    /\ coef' = Assembled(k, heap[ref.U0], heap[ref.U1], config)
    /\ hist' = [hist EXCEPT !.U1_start = heap[ref.U1]]
    /\ phase' = "solve"
    /\ UNCHANGED <<solverVars, modsVars, config, k, heap, ref, U_stack>>

\* U = relax(ax, ay, cx, cy, b, d_rhs, nx, ny, U1, alfa, eps, max_iter)
Solve ==
    /\ phase = "solve"
    /\ LET w == RelaxWorkingCopy(heap, ref.U1)
           r == RelaxLoop(coef, config.nx, config.ny, config.relax_alfa,
                          config.relax_eps, config.relax_max_iter,
                          [U |-> w.heap[w.ref], err |-> One, it |-> 0])
           refs == [ref EXCEPT !.U = w.ref]
       IN  /\ heap' = Collect([w.heap EXCEPT ![w.ref] = r.U],
                              {refs.U, refs.U0, refs.U1, refs.dU})
           /\ ref' = refs
           /\ hist' = [hist EXCEPT !.solved = r.U]
    /\ phase' = "correct"
    /\ UNCHANGED <<solverVars, modsVars, config, k, coef, U_stack>>

\* the boundary correction, in place on U
Correct ==
    /\ phase = "correct"
    /\ heap' = [heap EXCEPT ![ref.U] = BoundaryCorrection(heap[ref.U], config)]
    /\ hist' = [hist EXCEPT !.fixedAt[k - 1] = heap'[ref.U]]
    /\ phase' = "store"
    /\ UNCHANGED <<solverVars, modsVars, config, k, ref, coef, U_stack>>

\* the slot index off by one
SlotOfStepItself(step) == step

\* the index of the slot step k writes
SlotOf(step) == step - 1

\* U_stack[:, :, k - 1] = U
Store ==
    /\ phase = "store"
    /\ U_stack' = [U_stack EXCEPT ![SlotOf(k)] = heap[ref.U]]
    /\ hist' = [hist EXCEPT !.writes[SlotOf(k)] = @ + 1]
    /\ phase' = "advance"
    /\ UNCHANGED <<solverVars, modsVars, config, k, heap, ref, coef>>

\* U0, U1 = U1.copy(), U.copy(), and the loop's next step or its end
Advance ==
    /\ phase = "advance"
    /\ LET a == NpCopy(heap, ref.U1)
           b == NpCopy(a.heap, ref.U)
           refs == [ref EXCEPT !.U0 = a.ref, !.U1 = b.ref]
       IN  /\ heap' = Collect(b.heap, {refs.U, refs.U0, refs.U1, refs.dU})
           /\ ref' = refs
    /\ k' = k + 1
    /\ phase' = IF k < config.max_steps THEN "assemble" ELSE "done"
    /\ UNCHANGED <<solverVars, modsVars, config, coef, U_stack, hist>>

NextSim ==
    \/ GetConfig
    \/ StartSimulation
    \/ Assemble
    \/ Solve
    \/ Correct
    \/ Store
    \/ Advance

Spec == InitSim /\ [][NextSim]_vars

(***************************************************************************)
(* apply_neumann_coeff_mods on arbitrary coefficient arrays                *)
(***************************************************************************)
\* coefficient arrays that differ from node to node and from each other
ModsInputs ==
    { [nx |-> nx, ny |-> ny,
       c  |-> [ax |-> Ramp2(nx, ny, a, st),           ay |-> Ramp2(nx, ny, a + 10, 2 * st),
               cx |-> Ramp2(nx, ny, a + 20, 3 * st),  cy |-> Ramp2(nx, ny, a + 30, 5 * st),
               b  |-> Ramp2(nx, ny, d, 7 * st),       d_rhs |-> Const2(nx, ny, 0)]] :
      nx \in 3..GridMax, ny \in 3..GridMax,
      a \in {0, Half, -One}, d \in {0, Num(4), -Num(3)}, st \in {0, 1} }

InitMods ==
    /\ modsArgs \in ModsInputs
    /\ modsOut = <<>>
    /\ modsPc = "call"
    /\ SolverIdle
    /\ SimIdle

\* apply_neumann_coeff_mods(b, ax, ay, cx, cy, nx, ny), in place
ApplyMods ==
    /\ modsPc = "call"
    /\ modsOut' = ApplyNeumannCoeffMods(modsArgs.c, modsArgs.nx, modsArgs.ny)
    /\ modsPc' = "returned"
    /\ UNCHANGED <<solverVars, simVars, modsArgs>>

NextMods == ApplyMods

SpecMods == InitMods /\ [][NextMods]_vars

(***************************************************************************)
(* Claims about the solvers (SpecSolver)                                   *)
(***************************************************************************)
\* a node with index 0 or N-1 on some axis
IsBoundary(p, dims) == \E a \in 1..Len(dims) : p[a] = 0 \/ p[a] = dims[a] - 1

\* C1: when a solver's loop has stopped, either the error is within eps and the
\* minimum number of sweeps was done, or exactly max_iter sweeps were done (so
\* the sweeps never exceed max_iter).
C1_StopsConvergedOrAtCeiling ==
    pc = "returned" =>
        \/ (err <= call.eps /\ it >= call.min_iter)
        \/ it = call.max_iter

\* C2: on return the warning was printed exactly when max_iter sweeps were done
\* and the final error is above eps.
C2_WarnedIffNotConverged ==
    pc = "returned" => (warned <=> (it = call.max_iter /\ err > call.eps))

\* C3: at every moment of a solver call every boundary-ring node of the working
\* field holds the value of the initial guess.
C3_BoundaryRingUntouched ==
    \A p \in DOMAIN U : IsBoundary(p, call.dims) => U[p] = call.U_initial[p]

\* a returned call of at least two sweeps on a grid with several interior nodes
\* that changed an interior node and whose boundary ring is not all zero
C3_Witness ==
    /\ pc = "returned" /\ it >= 2
    /\ call.dims[1] > 3
    /\ \E p \in DOMAIN U : ~IsBoundary(p, call.dims) /\ U[p] # call.U_initial[p]
    /\ \E p \in DOMAIN U : IsBoundary(p, call.dims) /\ U[p] # 0

(***************************************************************************)
(* Claims about run_simulation (Spec)                                      *)
(***************************************************************************)
\* the phases of the time loop
Stepping == {"assemble", "solve", "correct", "store", "advance"}

\* C4: at every solver invocation each source row is b = 1, ax = ay = cx = cy = 0,
\* d_rhs = source_value(k), and the value the update drives the node to (its
\* target t) is source_value(k).
C4_SourceRowPinsSignal ==
    phase = "solve" =>
        \A p \in SourceNodes(config) :
            /\ coef.b[p] = One
            /\ coef.ax[p] = 0 /\ coef.ay[p] = 0 /\ coef.cx[p] = 0 /\ coef.cy[p] = 0
            /\ coef.d_rhs[p] = SourceValue(k, config)
            /\ Target2(coef, heap[ref.U1], p[1], p[2]) = SourceValue(k, config)

\* an unknown selector, a grid dimension below 3 or a relaxation factor outside (0, 2)
InvalidConfig(cfg) ==
    \/ cfg.experiment_type \notin ExperimentTypes
    \/ cfg.boundary_condition \notin {"neumann", "dirichlet"}
    \/ cfg.nx < 3 \/ cfg.ny < 3
    \/ cfg.relax_alfa <= 0 \/ cfg.relax_alfa >= Num(2)

\* C5: a run with an invalid configuration never reaches the time loop: it
\* is rejected before the first step is assembled.
C5_InvalidConfigRejected ==
    InvalidConfig(config) => phase \notin Stepping \cup {"done"}

\* whether step s + 1 has stored its slot s
Written(s) == s < k - 1 \/ (s = k - 1 /\ phase = "advance")

\* C6: step k writes exactly slot k-1 with the field after its boundary
\* correction; a slot once written keeps that field; a slot not yet written is
\* still zero; at the end every slot was written exactly once.
C6_HistoryAppendOnly ==
    phase \in Stepping \cup {"done"} =>
        /\ \A s \in DOMAIN U_stack :
              IF Written(s)
              THEN hist.writes[s] = 1 /\ U_stack[s] = hist.fixedAt[s]
              ELSE hist.writes[s] = 0 /\ U_stack[s] = Const2(config.nx, config.ny, 0)
        /\ phase = "done" =>
              /\ DOMAIN U_stack = 0..(config.max_steps - 1)
              /\ \A s \in DOMAIN U_stack : hist.writes[s] = 1

\* a finished run of several steps whose slots hold different non-zero fields
C6_Witness ==
    /\ phase = "done" /\ config.max_steps >= 2
    /\ U_stack[0] # Const2(config.nx, config.ny, 0)
    /\ U_stack[0] # U_stack[1]

\* C8: at every solver invocation the diagonal b is non-zero at every interior node.
C8_DiagonalNonZero ==
    phase = "solve" => \A p \in Interior2(config.nx, config.ny) : coef.b[p] # 0

\* a solver invocation under the reflective condition with an interior node
\* that is no source and had two couplings folded into its diagonal
C8_Witness ==
    /\ phase = "solve" /\ config.boundary_condition = "neumann" /\ k >= 2
    /\ \E p \in Interior2(config.nx, config.ny) \ SourceNodes(config) :
          /\ coef.ax[p] = 0 /\ coef.ay[p] = 0
          /\ coef.b[p] < BaseCoeffs(config).b[p]

\* C9: the solve and the correction leave the initial guess (U1) as it was
\* when the step started; after the step U0 is that field, U1 is the field of
\* history slot k-1, and U, U0 and U1 are three different arrays.
C9_LayersHandedOffWithoutAliasing ==
    /\ phase \in {"correct", "store", "advance"} => heap[ref.U1] = hist.U1_start
    /\ (phase \in {"assemble", "done"} /\ k > 1) =>
          /\ heap[ref.U0] = hist.U1_start
          /\ heap[ref.U1] = U_stack[k - 2]
          /\ Cardinality({ref.U, ref.U0, ref.U1}) = 3

\* two steps completed, with non-zero and different layers
C9_Witness ==
    /\ phase = "assemble" /\ k = 3
    /\ heap[ref.U0] # Const2(config.nx, config.ny, 0)
    /\ heap[ref.U0] # heap[ref.U1]

\* C10: after the boundary correction of a step, under the reflective
\* condition every non-corner boundary node equals its interior neighbour and
\* every corner is the average of its two adjacent edge nodes; under the fixed
\* condition every boundary node is zero; no interior node was changed.
C10_BoundaryCorrected ==
    phase = "store" =>
        LET nx == config.nx
            ny == config.ny
            F  == heap[ref.U]
        IN  /\ \A p \in Interior2(nx, ny) : F[p] = hist.solved[p]
            /\ config.boundary_condition = "neumann" =>
                  /\ \A i \in 1..(nx - 2) :
                        F[<<i, 0>>] = F[<<i, 1>>] /\ F[<<i, ny - 1>>] = F[<<i, ny - 2>>]
                  /\ \A j \in 1..(ny - 2) :
                        F[<<0, j>>] = F[<<1, j>>] /\ F[<<nx - 1, j>>] = F[<<nx - 2, j>>]
                  /\ F[<<0, 0>>] = Mul(Half, F[<<1, 0>>] + F[<<0, 1>>])
                  /\ F[<<nx - 1, ny - 1>>] =
                        Mul(Half, F[<<nx - 2, ny - 1>>] + F[<<nx - 1, ny - 2>>])
                  /\ F[<<0, ny - 1>>] = Mul(Half, F[<<0, ny - 2>>] + F[<<1, ny - 1>>])
                  /\ F[<<nx - 1, 0>>] = Mul(Half, F[<<nx - 1, 1>>] + F[<<nx - 2, 0>>])
            /\ config.boundary_condition = "dirichlet" =>
                  \A p \in Nodes2(nx, ny) : IsBoundary(p, <<nx, ny>>) => F[p] = 0

\* a reflective correction of a later step on a grid with several interior
\* nodes, whose corners are non-zero and differ
C10_Witness ==
    /\ phase = "store" /\ config.boundary_condition = "neumann" /\ k >= 2
    /\ config.nx > 3 /\ config.ny > 3
    /\ heap[ref.U][<<0, 0>>] # 0
    /\ heap[ref.U][<<0, 0>>] # heap[ref.U][<<config.nx - 1, config.ny - 1>>]

\* a fixed-edge correction of a later step that zeroed a boundary ring around a
\* non-zero interior
C10_WitnessFixed ==
    /\ phase = "store" /\ config.boundary_condition = "dirichlet" /\ k >= 2
    /\ \E p \in Interior2(config.nx, config.ny) : heap[ref.U][p] # 0

(***************************************************************************)
(* Claims about apply_neumann_coeff_mods (SpecMods)                        *)
(***************************************************************************)
\* b - (ax + cx + ay + cy) of a row
RowBalance(c, p) == c.b[p] - (c.ax[p] + c.cx[p] + c.ay[p] + c.cy[p])

\* the couplings toward a boundary node that the row of node p holds
RemovedCoupling(c, p, nx, ny) ==
      (IF p[2] = 1      THEN c.ay[p] ELSE 0) + (IF p[2] = ny - 2 THEN c.cy[p] ELSE 0)
    + (IF p[1] = 1      THEN c.ax[p] ELSE 0) + (IF p[1] = nx - 2 THEN c.cx[p] ELSE 0)

\* C7: after apply_neumann_coeff_mods every row has the balance
\* b - (ax + cx + ay + cy) it had before, each coupling toward a boundary node
\* is zero, and b has lost exactly the removed couplings.
C7_RowBalanceConserved ==
    modsPc = "returned" =>
        LET nx == modsArgs.nx
            ny == modsArgs.ny
        IN  \A p \in Nodes2(nx, ny) :
                /\ RowBalance(modsOut, p) = RowBalance(modsArgs.c, p)
                /\ p[2] = 1      => modsOut.ay[p] = 0
                /\ p[2] = ny - 2 => modsOut.cy[p] = 0
                /\ p[1] = 1      => modsOut.ax[p] = 0
                /\ p[1] = nx - 2 => modsOut.cx[p] = 0
                /\ modsArgs.c.b[p] - modsOut.b[p] = RemovedCoupling(modsArgs.c, p, nx, ny)

\* a call on a grid with nx = 3 < ny, where node (1, 1) loses three different
\* non-zero couplings
C7_Witness ==
    /\ modsPc = "returned" /\ modsArgs.nx = 3 /\ modsArgs.ny > 3
    /\ modsArgs.c.ax[<<1, 1>>] # 0 /\ modsArgs.c.cx[<<1, 1>>] # 0 /\ modsArgs.c.ay[<<1, 1>>] # 0
    /\ modsArgs.c.ax[<<1, 1>>] # modsArgs.c.cx[<<1, 1>>]
    /\ modsOut.b[<<1, 1>>] # modsArgs.c.b[<<1, 1>>]
    /\ modsOut.cy[<<1, 1>>] # 0

=============================================================================
